---- MODULE Spec2Model ----
(***************************************************************************)
(* Model of the Copilot service of hangul-typing                           *)
(* (src-tauri/src/copilot.rs): the connection slot guarded by a tokio      *)
(* Mutex, the running flag guarded by a tokio RwLock, and the operations   *)
(* start, stop, is_running and ask, run by concurrent async tasks.         *)
(* One step of the model is the code between two await points.             *)
(***************************************************************************)
EXTENDS Integers, Sequences, FiniteSets, TLC

(* ---------------- bounds ---------------- *)
\* number of concurrent tasks calling into the singleton service
NumTasks == 2
\* events one session may emit in the concurrent specification
MaxEmitConc == 1
\* events one session may emit in the single-caller specification
MaxEmit == 4
\* seconds by which the clock advances in one Tick
TickSecs == 30

(* ---------------- program constants ---------------- *)
\* Duration::from_secs(60), the watchdog of one wait for the next event
WATCHDOG == 60

Tasks == 1..NumTasks

VARIABLES
  client,          \* CopilotService.client : "None" | "Some"
  running,         \* CopilotService.is_running : BOOLEAN
  holders,         \* tasks holding the guard of the client Mutex
  readers,         \* tasks holding a read guard of the is_running RwLock
  live,            \* connections started (Client::start ok) and not yet stopped
  startsSinceStop, \* successful Client::start calls since stop last took a connection
  pc,              \* per task: where it is suspended
  op,              \* per task: the operation of its current or last call
  result,          \* per task: the value its last call returned
  did,             \* per task: external side effects of its current or last call
  avail,           \* per task: start's local `availability` (NoAvail before the probe)
  content,         \* per task: ask's response_content
  chan,            \* per task: events emitted to its subscription, not yet received
  hist,            \* per task: events (and receive errors) its ask has received
  subscribed,      \* per task: its session has a subscription
  waited,          \* per task: seconds the current tokio::time::timeout has run
  sinceEvent,      \* per task: seconds since its ask last received anything
  elapsed,         \* per task: seconds the ask in progress has waited in total
  emitted,         \* per task: events its session has emitted
  stream,          \* per task: the events its live session has emitted, in order
  log,             \* per task: the session calls its ask has made, in order
  cmd,             \* per task: the Tauri command it runs or last ran
  env,             \* per task: the CommandResponse its last command returned
  probes,          \* per task: raw outcomes of the probe processes of its command
  chk              \* per task: what a conversational command knows of the slot
                   \*   since its is_running check ("none" outside one)

svc == <<client, running>>
locks == <<holders, readers>>
ghost == <<live, startsSinceStop>>
ctl == <<pc, op, result, did, avail>>
askv == <<content, chan, hist, subscribed, waited, sinceEvent, elapsed, emitted>>
cmdv == <<cmd, env, probes, chk>>
vars == <<client, running, holders, readers, live, startsSinceStop, pc, op, result,
          did, avail, content, chan, hist, subscribed, waited, sinceEvent, elapsed, emitted,
          stream, log, cmd, env, probes, chk>>

(* ---------------- values ---------------- *)
None == "None"
Some == "Some"

\* Result values: Ok(()) / Ok(AssistantResponse{content}) / Err(CopilotError)
Res(tag, val) == [tag |-> tag, val |-> val]
NoResult == Res("none", <<>>)
OkUnit == Res("Ok", <<>>)
OkAnswer(c) == Res("Ok", c)
CliNotFound == Res("CliNotFound", <<>>)
NotAuthenticated == Res("NotAuthenticated", <<>>)
StartFailed(d) == Res("StartFailed", d)
SessionFailed(d) == Res("SessionFailed", d)
SendFailed(d) == Res("SendFailed", d)
Timeout == Res("Timeout", <<>>)
NotInitialized == Res("NotInitialized", <<>>)
BoolResult(b) == Res(IF b THEN "true" ELSE "false", <<>>)

\* SessionEventData variants the fold distinguishes, and a receive error
Ev(kind, text) == [kind |-> kind, text |-> text]
Delta(x) == Ev("delta", x)
Full(x) == Ev("full", x)
Idle == Ev("idle", <<>>)
SessErr(m) == Ev("error", m)
Other == Ev("other", <<>>)
RecvErr == Ev("recv_err", <<>>)

AllEvents == {Delta(<<>>), Delta(<<"a">>), Delta(<<"b">>), Full(<<"a", "b">>),
              Idle, SessErr(<<"boom">>), Other, RecvErr}
ConcEvents == {Delta(<<"a">>), Idle, SessErr(<<"boom">>)}
\* the same with the closed channel, for the specification with fairness
LiveEvents == ConcEvents \cup {RecvErr}

(* ---------------- check_availability ---------------- *)
ReadyMsg == "GitHub Copilot is ready"
AuthMsg == "GitHub CLI not authenticated. Run 'gh auth login' to enable AI assistant."
InstallMsg == "GitHub Copilot CLI not found. Install it to enable AI assistant."

\* variant: the authentication message is selected before the install message
CheckAvailability_AuthFirst(inst, auth) ==
  [cli_installed |-> inst,
   cli_authenticated |-> auth,
   available |-> (inst /\ auth),
   message |-> IF inst /\ auth THEN ReadyMsg
               ELSE IF ~auth THEN AuthMsg
               ELSE InstallMsg]

CheckAvailability(inst, auth) ==
  [cli_installed |-> inst,
   cli_authenticated |-> auth,
   available |-> (inst /\ auth),
   message |-> IF inst /\ auth THEN ReadyMsg
               ELSE IF inst THEN AuthMsg
               ELSE InstallMsg]

NoAvail == [cli_installed |-> FALSE, cli_authenticated |-> FALSE,
            available |-> FALSE, message |-> "unprobed"]

(* ---------------- values of the command layer ---------------- *)
\* the commands that talk to the assistant
Conversational == {"copilot_ask", "copilot_hint", "copilot_explain",
                   "copilot_analyze_mistake"}

\* CommandResponse<T>: Option fields are <<>> (None) or <<x>> (Some(x))
NoEnv == [success |-> FALSE, data |-> <<>>, error |-> <<>>, returned |-> FALSE]
EnvOk(data) == [success |-> TRUE, data |-> <<data>>, error |-> <<>>, returned |-> TRUE]
EnvErr(message) ==
  [success |-> FALSE, data |-> <<>>, error |-> <<message>>, returned |-> TRUE]

\* outcome of a version query: the process could not be spawned, exited with
\* a failure status, or exited successfully
VersionOutcomes == {"spawn_failed", "exit_failure", "exit_success"}
\* outcome of `gh auth status`: spawned or not, and the two markers in its output
AuthOutcomes ==
  {a \in [spawned : BOOLEAN, logged_in : BOOLEAN, active : BOOLEAN] :
     ~a.spawned => (~a.logged_in /\ ~a.active)}
Raw(c, g, a) == [copilot |-> c, gh_copilot |-> g, auth |-> a]
NoProbes == Raw("unprobed", "unprobed",
                [spawned |-> FALSE, logged_in |-> FALSE, active |-> FALSE])
AllProbes == {Raw(c, g, a) : c \in VersionOutcomes, g \in VersionOutcomes,
                             a \in AuthOutcomes}
ConcProbes ==
  {Raw("exit_success", "spawn_failed",
       [spawned |-> TRUE, logged_in |-> TRUE, active |-> TRUE]),
   Raw("spawn_failed", "exit_failure",
       [spawned |-> TRUE, logged_in |-> TRUE, active |-> TRUE]),
   Raw("exit_failure", "exit_success",
       [spawned |-> TRUE, logged_in |-> TRUE, active |-> FALSE])}

\* is_copilot_cli_installed: `copilot --version` or `gh copilot --version`
\* ran and exited successfully; a spawn error is unwrap_or(false)
IsCopilotCliInstalled(p) ==
  IF p.copilot = "exit_success" THEN TRUE ELSE p.gh_copilot = "exit_success"

\* is_gh_authenticated: the output has both markers; a spawn error is false
IsGhAuthenticated(p) ==
  IF p.auth.spawned THEN p.auth.logged_in /\ p.auth.active ELSE FALSE

\* check_availability() on the query outcomes p
ProbeAvailability(p) ==
  CheckAvailability(IsCopilotCliInstalled(p), IsGhAuthenticated(p))

\* a message: fixed text and the interpolated detail, if any
Msg(text, detail) == [text |-> text, detail |-> detail]

\* impl Display for CopilotError
Display(r) ==
  IF r.tag = "NotInitialized" THEN Msg("Copilot service not initialized", <<>>)
  ELSE IF r.tag = "CliNotFound"
    THEN Msg("GitHub Copilot CLI not found. Please install it from https://docs.github.com/en/copilot/github-copilot-in-the-cli", <<>>)
  ELSE IF r.tag = "NotAuthenticated"
    THEN Msg("GitHub Copilot CLI not authenticated. Run 'gh auth login' and 'gh extension install github/gh-copilot'", <<>>)
  ELSE IF r.tag = "StartFailed" THEN Msg("Failed to start Copilot client: ", r.val)
  ELSE IF r.tag = "SessionFailed" THEN Msg("Failed to create session: ", r.val)
  ELSE IF r.tag = "SendFailed" THEN Msg("Failed to send message: ", r.val)
  ELSE Msg("Session timeout", <<>>)

\* CopilotStatus
Status(available, run, inst, auth, message) ==
  [available |-> available, running |-> run, cli_installed |-> inst,
   cli_authenticated |-> auth, message |-> message]

\* the status copilot_check and the early return of copilot_init build
ProbedStatus(a) ==
  Status(a.available, FALSE, a.cli_installed, a.cli_authenticated,
         Msg(a.message, <<>>))

\* the status copilot_init builds from the result of init()
InitStatus(r) ==
  IF r.tag = "Ok" THEN Status(TRUE, TRUE, TRUE, TRUE, Msg("AI assistant ready", <<>>))
  ELSE IF r.tag = "CliNotFound"
    THEN Status(FALSE, FALSE, FALSE, FALSE,
                Msg("GitHub Copilot CLI not found. Install it to enable AI assistant.", <<>>))
  ELSE IF r.tag = "NotAuthenticated"
    THEN Status(FALSE, FALSE, TRUE, FALSE,
                Msg("GitHub CLI not authenticated. Run 'gh auth login' first.", <<>>))
  ELSE Status(FALSE, FALSE, TRUE, TRUE, Msg("Failed to start: ", Display(r)))

\* the status copilot_status builds from is_running() and check_availability()
RunStatus(run, a) ==
  Status(a.available /\ run, run, a.cli_installed, a.cli_authenticated,
         Msg(IF run THEN "AI assistant ready"
             ELSE IF ~a.cli_installed THEN "GitHub Copilot CLI not installed"
             ELSE IF ~a.cli_authenticated THEN "GitHub CLI not authenticated"
             ELSE "AI assistant not running", <<>>))

\* the message of a conversational command that saw is_running() false
NotRunningMsg(c) ==
  IF c = "copilot_ask"
  THEN Msg("AI assistant not running. Copilot CLI may not be installed.", <<>>)
  ELSE Msg("AI assistant not available", <<>>)

\* variant: a timed-out ask is reported as an empty successful answer
ResultEnv_SwallowsTimeout(r) ==
  IF r.tag \in {"Ok", "Timeout"} THEN EnvOk(r.val) ELSE EnvErr(Display(r))

\* the envelope a conversational command or copilot_shutdown builds from a Result
ResultEnv(r) == IF r.tag = "Ok" THEN EnvOk(r.val) ELSE EnvErr(Display(r))

(* ---------------- initial state: CopilotService::new ---------------- *)
Init ==
  /\ client = None
  /\ running = FALSE
  /\ holders = {}
  /\ readers = {}
  /\ live = 0
  /\ startsSinceStop = 0
  /\ pc = [t \in Tasks |-> "idle"]
  /\ op = [t \in Tasks |-> "none"]
  /\ result = [t \in Tasks |-> NoResult]
  /\ did = [t \in Tasks |-> {}]
  /\ avail = [t \in Tasks |-> NoAvail]
  /\ content = [t \in Tasks |-> <<>>]
  /\ chan = [t \in Tasks |-> <<>>]
  /\ hist = [t \in Tasks |-> <<>>]
  /\ subscribed = [t \in Tasks |-> FALSE]
  /\ waited = [t \in Tasks |-> 0]
  /\ sinceEvent = [t \in Tasks |-> 0]
  /\ elapsed = [t \in Tasks |-> 0]
  /\ emitted = [t \in Tasks |-> 0]
  /\ stream = [t \in Tasks |-> <<>>]
  /\ log = [t \in Tasks |-> <<>>]
  /\ cmd = [t \in Tasks |-> "none"]
  /\ env = [t \in Tasks |-> NoEnv]
  /\ probes = [t \in Tasks |-> NoProbes]
  /\ chk = [t \in Tasks |-> "none"]

(* ---------------- helpers ---------------- *)
\* variant: the lock does not exclude a second holder
MutexFree_NoExclusion == TRUE

\* self.client.lock().await completes only when no task holds the guard
MutexFree == holders = {}

\* self.is_running.write().await completes only when no read guard is held
WriteFree == readers = {}

\* a task issues a call: its per-call record starts afresh
Call(t, name, at) ==
  /\ pc[t] = "idle"
  /\ pc' = [pc EXCEPT ![t] = at]
  /\ op' = [op EXCEPT ![t] = name]
  /\ result' = [result EXCEPT ![t] = NoResult]
  /\ did' = [did EXCEPT ![t] = {}]
  /\ avail' = [avail EXCEPT ![t] = NoAvail]
  /\ content' = [content EXCEPT ![t] = <<>>]
  /\ chan' = [chan EXCEPT ![t] = <<>>]
  /\ hist' = [hist EXCEPT ![t] = <<>>]
  /\ subscribed' = [subscribed EXCEPT ![t] = FALSE]
  /\ waited' = [waited EXCEPT ![t] = 0]
  /\ sinceEvent' = [sinceEvent EXCEPT ![t] = 0]
  /\ elapsed' = [elapsed EXCEPT ![t] = 0]
  /\ emitted' = [emitted EXCEPT ![t] = 0]
  /\ stream' = [stream EXCEPT ![t] = <<>>]
  /\ log' = [log EXCEPT ![t] = <<>>]
  /\ UNCHANGED <<svc, locks, ghost>>

\* the call returns r; the MutexGuard (if held) is dropped with the frame
Return(t, r) ==
  /\ pc' = [pc EXCEPT ![t] = "idle"]
  /\ result' = [result EXCEPT ![t] = r]
  /\ holders' = holders \ {t}
  /\ UNCHANGED op

Goto(t, at) ==
  /\ pc' = [pc EXCEPT ![t] = at]
  /\ UNCHANGED <<op, result>>

Did(t, effects) == did' = [did EXCEPT ![t] = @ \cup effects]

(* ---------------- CopilotService::start ---------------- *)
StartCall(t) == Call(t, "start", "start_lock") /\ UNCHANGED cmdv

\* variant: start never notices a held connection
AlreadyStarted_Never == FALSE

\* client_lock.is_some()
AlreadyStarted == client # None

\* the connection lock is granted; a filled slot returns Ok at once,
\* otherwise the start goes on to probe, holding the lock
StartEnter(t) ==
  /\ pc[t] = "start_lock"
  /\ MutexFree
  /\ IF AlreadyStarted
     THEN Return(t, OkUnit)
     ELSE /\ Goto(t, "start_probe")
          /\ holders' = holders \cup {t}
  /\ UNCHANGED <<svc, readers, ghost, did, avail, askv>>
  /\ UNCHANGED <<cmdv, log, stream>>

\* check_availability() has run its subprocesses and the client is built,
\* all under the lock: an error return, or on to client.start()
StartProbe(t) ==
  /\ pc[t] = "start_probe"
  /\ \E inst \in BOOLEAN, auth \in BOOLEAN, built \in BOOLEAN :
       LET availability == CheckAvailability(inst, auth) IN
       /\ Did(t, {"probe"})
       /\ avail' = [avail EXCEPT ![t] = availability]
       /\ IF ~availability.cli_installed THEN Return(t, CliNotFound)
          ELSE IF ~availability.cli_authenticated THEN Return(t, NotAuthenticated)
          ELSE IF ~built THEN Return(t, StartFailed(<<"build">>))
          ELSE /\ Goto(t, "start_ext")
               /\ UNCHANGED holders
  /\ UNCHANGED <<svc, readers, ghost, askv>>
  /\ UNCHANGED <<cmdv, log, stream>>

\* variant: the slot is filled before client.start() has succeeded
StartExt_CommitEarly(t) ==
  /\ pc[t] = "start_ext"
  /\ Did(t, {"ext_start"})
  /\ client' = Some
  /\ \E ok \in BOOLEAN :
       IF ok
       THEN /\ live' = live + 1
            /\ startsSinceStop' = startsSinceStop + 1
            /\ Goto(t, "start_write")
            /\ UNCHANGED holders
       ELSE /\ Return(t, StartFailed(<<"start">>))
            /\ UNCHANGED ghost
  /\ UNCHANGED <<running, readers, avail, askv>>
  /\ UNCHANGED <<cmdv, log, stream>>

\* client.start().await returns; on success the slot is filled
StartExt(t) ==
  /\ pc[t] = "start_ext"
  /\ Did(t, {"ext_start"})
  /\ \E ok \in BOOLEAN :
       IF ok
       THEN /\ client' = Some
            /\ live' = live + 1
            /\ startsSinceStop' = startsSinceStop + 1
            /\ Goto(t, "start_write")
            /\ UNCHANGED holders
       ELSE /\ Return(t, StartFailed(<<"start">>))
            /\ UNCHANGED <<client, ghost>>
  /\ UNCHANGED <<running, readers, avail, askv>>
  /\ UNCHANGED <<cmdv, log, stream>>

\* variant: start returns without setting the flag
StartCommit_NoFlag(t) ==
  /\ pc[t] = "start_write"
  /\ WriteFree
  /\ Return(t, OkUnit)
  /\ UNCHANGED <<svc, readers, ghost, did, avail, askv>>
  /\ UNCHANGED <<cmdv, log, stream>>

\* *self.is_running.write().await = true; Ok(())
StartCommit(t) ==
  /\ pc[t] = "start_write"
  /\ WriteFree
  /\ running' = TRUE
  /\ Return(t, OkUnit)
  /\ UNCHANGED <<client, readers, ghost, did, avail, askv>>
  /\ UNCHANGED <<cmdv, log, stream>>

(* ---------------- CopilotService::stop ---------------- *)
StopCall(t) == Call(t, "stop", "stop_lock") /\ UNCHANGED cmdv

\* variant: stopping a stopped service is reported as an error
StopEmptyResult_Error == NotInitialized

\* the final Ok(()) reached when take() found nothing
StopEmptyResult == OkUnit

\* lock acquired; client_lock.take()
StopEnter(t) ==
  /\ pc[t] = "stop_lock"
  /\ MutexFree
  /\ IF client = None
     THEN /\ Return(t, StopEmptyResult)
          /\ UNCHANGED <<client, startsSinceStop>>
     ELSE /\ client' = None
          /\ startsSinceStop' = 0
          /\ Goto(t, "stop_write")
          /\ holders' = holders \cup {t}
  /\ UNCHANGED <<running, readers, live, did, avail, askv>>
  /\ chk' = IF client = None THEN chk
            ELSE [u \in Tasks |-> IF chk[u] = "none" THEN "none" ELSE "taken"]
  /\ UNCHANGED <<cmd, env, probes, log, stream>>

\* variant: stop leaves the flag as it found it
StopWrite_KeepsFlag(t) ==
  /\ pc[t] = "stop_write"
  /\ WriteFree
  /\ Goto(t, "stop_ext")
  /\ UNCHANGED <<svc, locks, ghost, did, avail, askv>>
  /\ UNCHANGED <<cmdv, log, stream>>

\* *self.is_running.write().await = false
StopWrite(t) ==
  /\ pc[t] = "stop_write"
  /\ WriteFree
  /\ running' = FALSE
  /\ Goto(t, "stop_ext")
  /\ UNCHANGED <<client, locks, ghost, did, avail, askv>>
  /\ UNCHANGED <<cmdv, log, stream>>

\* variant: a failed stop puts the connection back
StopExt_Rollback(t) ==
  /\ pc[t] = "stop_ext"
  /\ Did(t, {"ext_stop"})
  /\ \E ok \in BOOLEAN :
       IF ok
       THEN /\ Return(t, OkUnit)
            /\ live' = live - 1
            /\ UNCHANGED svc
       ELSE /\ Return(t, SendFailed(<<"stop">>))
            /\ client' = Some
            /\ running' = TRUE
            /\ UNCHANGED live
  /\ UNCHANGED <<readers, startsSinceStop, avail, askv>>
  /\ UNCHANGED <<cmdv, log, stream>>

\* client.stop().await returns
StopExt(t) ==
  /\ pc[t] = "stop_ext"
  /\ Did(t, {"ext_stop"})
  /\ live' = live - 1
  /\ \E ok \in BOOLEAN :
       Return(t, IF ok THEN OkUnit ELSE SendFailed(<<"stop">>))
  /\ UNCHANGED <<svc, readers, startsSinceStop, avail, askv>>
  /\ UNCHANGED <<cmdv, log, stream>>

(* ---------------- CopilotService::is_running ---------------- *)
IsRunningCall(t) == Call(t, "is_running", "isr_read") /\ UNCHANGED cmdv

\* self.is_running.read().await completes and the flag is copied
IsRunningRead(t) ==
  /\ pc[t] = "isr_read"
  /\ readers' = readers \cup {t}
  /\ pc' = [pc EXCEPT ![t] = "isr_release"]
  /\ result' = [result EXCEPT ![t] = BoolResult(running)]
  /\ UNCHANGED <<svc, holders, ghost, op, did, avail, askv>>
  /\ chk' = [chk EXCEPT ![t] = IF cmd[t] \in Conversational
                               THEN (IF client = None THEN "empty" ELSE "filled")
                               ELSE "none"]
  /\ UNCHANGED <<cmd, env, probes, log, stream>>

\* variant: is_running takes the connection lock before it drops its read guard
IsRunningRelease_NeedsMutex(t) ==
  /\ pc[t] = "isr_release"
  /\ MutexFree
  /\ readers' = readers \ {t}
  /\ pc' = [pc EXCEPT ![t] = "idle"]
  /\ UNCHANGED <<svc, holders, ghost, op, result, did, avail, askv>>
  /\ UNCHANGED <<cmdv, log, stream>>

\* the read guard is dropped and the copy returned
IsRunningRelease(t) ==
  /\ pc[t] = "isr_release"
  /\ readers' = readers \ {t}
  /\ pc' = [pc EXCEPT ![t] = "idle"]
  /\ UNCHANGED <<svc, holders, ghost, op, result, did, avail, askv>>
  /\ UNCHANGED <<cmdv, log, stream>>

(* ---------------- CopilotService::ask ---------------- *)
\* variant: a delta overwrites what was accumulated
Fold_DeltaOverwrites(c, e) ==
  IF e.kind = "delta" THEN e.text
  ELSE IF e.kind = "full" THEN (IF c = <<>> THEN e.text ELSE c)
  ELSE c

\* variant: a full message is appended like a delta
Fold_FullAppended(c, e) ==
  IF e.kind = "delta" \/ e.kind = "full" THEN c \o e.text ELSE c

\* the fold of one received event into response_content
Fold(c, e) ==
  IF e.kind = "delta" THEN c \o e.text
  ELSE IF e.kind = "full" THEN (IF c = <<>> THEN e.text ELSE c)
  ELSE c

\* the events and receive results that end the loop
Terminal(e) == e.kind \in {"idle", "error", "recv_err"}

\* variant: an error event ends the loop like idle does
Outcome_ErrorBreaks(c, e) == OkAnswer(c)

\* variant: a closed channel is reported as a failure
Outcome_ChannelErrorFails(c, e) ==
  IF e.kind = "error" THEN SendFailed(e.text)
  ELSE IF e.kind = "recv_err" THEN SendFailed(<<"closed">>)
  ELSE OkAnswer(c)

\* what ask returns when the loop ends on e with c accumulated
Outcome(c, e) == IF e.kind = "error" THEN SendFailed(e.text) ELSE OkAnswer(c)

\* variant: one deadline for the whole exchange
Rearm_SingleDeadline(w) == w

\* a fresh tokio::time::timeout is built for every wait
Rearm(w) == 0

AskCall(t) == Call(t, "ask", "ask_lock") /\ UNCHANGED cmdv

\* variant: ask drops the connection lock as soon as it has seen the slot
AskEnter_ReleasesEarly(t) ==
  /\ pc[t] = "ask_lock"
  /\ MutexFree
  /\ IF client = None
     THEN Return(t, NotInitialized)
     ELSE /\ Goto(t, "ask_create")
          /\ UNCHANGED holders
  /\ UNCHANGED <<svc, readers, ghost, did, avail, askv>>
  /\ UNCHANGED <<cmdv, log, stream>>

\* variant: ask goes on to create a session without looking at the slot
AskEnter_IgnoresEmptySlot(t) ==
  /\ pc[t] = "ask_lock"
  /\ MutexFree
  /\ Goto(t, "ask_create")
  /\ holders' = holders \cup {t}
  /\ UNCHANGED <<svc, readers, ghost, did, avail, askv>>
  /\ UNCHANGED <<cmdv, log, stream>>

\* lock acquired; client_lock.as_ref().ok_or(NotInitialized)?
AskEnter(t) ==
  /\ pc[t] = "ask_lock"
  /\ MutexFree
  /\ IF client = None
     THEN Return(t, NotInitialized)
     ELSE /\ Goto(t, "ask_create")
          /\ holders' = holders \cup {t}
  /\ UNCHANGED <<svc, readers, ghost, did, avail, askv>>
  /\ UNCHANGED <<cmdv, log, stream>>

\* variant: the prompt is sent before the event stream is subscribed to
AskCreate_SendsUnsubscribed(t) ==
  /\ pc[t] = "ask_create"
  /\ \E ok \in BOOLEAN :
       IF ok
       THEN /\ Did(t, {"session", "send"})
            /\ log' = [log EXCEPT ![t] = @ \o <<"create_session", "send", "subscribe">>]
            /\ Goto(t, "ask_send")
            /\ UNCHANGED holders
       ELSE /\ Did(t, {"session_failed"})
            /\ log' = [log EXCEPT ![t] = @ \o <<"create_session">>]
            /\ Return(t, SessionFailed(<<"create">>))
  /\ UNCHANGED <<svc, readers, ghost, avail, content, chan, hist, waited,
                 sinceEvent, elapsed, emitted, subscribed>>
  /\ UNCHANGED <<cmdv, stream>>

\* client.create_session(config).await returns; subscribe; send is issued
AskCreate(t) ==
  /\ pc[t] = "ask_create"
  /\ \E ok \in BOOLEAN :
       IF ok
       THEN /\ Did(t, {"session", "send"})
            /\ log' = [log EXCEPT ![t] = @ \o <<"create_session", "subscribe", "send">>]
            /\ subscribed' = [subscribed EXCEPT ![t] = TRUE]
            /\ Goto(t, "ask_send")
            /\ UNCHANGED holders
       ELSE /\ Did(t, {"session_failed"})
            /\ log' = [log EXCEPT ![t] = @ \o <<"create_session">>]
            /\ Return(t, SessionFailed(<<"create">>))
            /\ UNCHANGED subscribed
  /\ UNCHANGED <<svc, readers, ghost, avail, content, chan, hist, waited,
                 sinceEvent, elapsed, emitted>>
  /\ UNCHANGED <<cmdv, stream>>

\* variant: a failed send is issued again on the same session
AskSend_Retries(t) ==
  /\ pc[t] = "ask_send"
  /\ \E ok \in BOOLEAN :
       IF ok
       THEN /\ Goto(t, "ask_recv")
            /\ UNCHANGED <<holders, chan, stream, log>>
       ELSE IF Len(log[t]) < 4
       THEN /\ log' = [log EXCEPT ![t] = Append(@, "send")]
            /\ UNCHANGED <<pc, op, result, holders, chan, stream>>
       ELSE /\ Return(t, SendFailed(<<"send">>))
            /\ chan' = [chan EXCEPT ![t] = <<>>]
            /\ stream' = [stream EXCEPT ![t] = <<>>]
            /\ UNCHANGED log
  /\ UNCHANGED <<svc, readers, ghost, did, avail, content, hist, subscribed,
                 waited, sinceEvent, elapsed, emitted>>
  /\ UNCHANGED cmdv

\* session.send(..).await returns
AskSend(t) ==
  /\ pc[t] = "ask_send"
  /\ \E ok \in BOOLEAN :
       IF ok
       THEN /\ Goto(t, "ask_recv")
            /\ UNCHANGED <<holders, chan, stream>>
       ELSE /\ Return(t, SendFailed(<<"send">>))
            /\ chan' = [chan EXCEPT ![t] = <<>>]
            /\ stream' = [stream EXCEPT ![t] = <<>>]
  /\ UNCHANGED <<svc, readers, ghost, did, avail, content, hist, subscribed,
                 waited, sinceEvent, elapsed, emitted>>
  /\ UNCHANGED <<cmdv, log>>

\* the session emits event e; a subscription that exists gets it. An event
\* may arrive after the deadline of the current wait has passed and before
\* the ask is polled again: the timeout polls events.recv() first, so that
\* event is received.
Emit(t, e, max) ==
  /\ pc[t] \in {"ask_send", "ask_recv"}
  /\ emitted[t] < max
  /\ emitted' = [emitted EXCEPT ![t] = @ + 1]
  /\ chan' = [chan EXCEPT ![t] = IF subscribed[t] THEN Append(@, e) ELSE @]
  /\ UNCHANGED <<svc, locks, ghost, ctl, content, hist, subscribed, waited,
                 sinceEvent, elapsed>>
  /\ stream' = [stream EXCEPT ![t] = Append(@, e)]
  /\ UNCHANGED <<cmdv, log>>

\* time passes while ask waits on an empty channel
Tick(t) ==
  /\ pc[t] = "ask_recv"
  /\ chan[t] = <<>>
  /\ waited[t] < WATCHDOG
  /\ waited' = [waited EXCEPT ![t] = @ + TickSecs]
  /\ sinceEvent' = [sinceEvent EXCEPT ![t] = @ + TickSecs]
  /\ elapsed' = [elapsed EXCEPT ![t] = @ + TickSecs]
  /\ UNCHANGED <<svc, locks, ghost, ctl, content, chan, hist, subscribed, emitted>>
  /\ UNCHANGED <<cmdv, log, stream>>

\* events.recv() completes within the watchdog: one turn of the loop
AskRecv(t) ==
  /\ pc[t] = "ask_recv"
  /\ chan[t] # <<>>
  /\ LET e == Head(chan[t]) IN
     /\ hist' = [hist EXCEPT ![t] = Append(@, e)]
     /\ sinceEvent' = [sinceEvent EXCEPT ![t] = 0]
     /\ IF Terminal(e)
        THEN /\ Return(t, Outcome(content[t], e))
             /\ chan' = [chan EXCEPT ![t] = <<>>]
             /\ stream' = [stream EXCEPT ![t] = <<>>]
             /\ waited' = [waited EXCEPT ![t] = 0]
             /\ elapsed' = [elapsed EXCEPT ![t] = 0]
             /\ UNCHANGED content
        ELSE /\ content' = [content EXCEPT ![t] = Fold(@, e)]
             /\ chan' = [chan EXCEPT ![t] = Tail(@)]
             /\ waited' = [waited EXCEPT ![t] = Rearm(@)]
             /\ UNCHANGED <<pc, op, result, holders, stream, elapsed>>
  /\ UNCHANGED <<svc, readers, ghost, did, avail, subscribed, emitted>>
  /\ UNCHANGED <<cmdv, log>>

\* variant: a timed-out ask tears the connection down
AskTimeout_DropsClient(t) ==
  /\ pc[t] = "ask_recv"
  /\ chan[t] = <<>>
  /\ waited[t] >= WATCHDOG
  /\ Return(t, Timeout)
  /\ waited' = [waited EXCEPT ![t] = 0]
  /\ client' = None
  /\ running' = FALSE
  /\ UNCHANGED <<readers, ghost, did, avail, content, chan, hist, subscribed,
                 sinceEvent, emitted>>
  /\ elapsed' = [elapsed EXCEPT ![t] = 0]
  /\ stream' = [stream EXCEPT ![t] = <<>>]
  /\ UNCHANGED <<cmdv, log>>

\* variant: the timeout exit keeps the connection lock
AskTimeout_KeepsLock(t) ==
  /\ pc[t] = "ask_recv"
  /\ chan[t] = <<>>
  /\ waited[t] >= WATCHDOG
  /\ pc' = [pc EXCEPT ![t] = "idle"]
  /\ result' = [result EXCEPT ![t] = Timeout]
  /\ waited' = [waited EXCEPT ![t] = 0]
  /\ UNCHANGED <<svc, locks, ghost, op, did, avail, content, chan, hist,
                 subscribed, sinceEvent, emitted>>
  /\ elapsed' = [elapsed EXCEPT ![t] = 0]
  /\ stream' = [stream EXCEPT ![t] = <<>>]
  /\ UNCHANGED <<cmdv, log>>

\* the watchdog of the current wait expires: Err(Timeout)
AskTimeout(t) ==
  /\ pc[t] = "ask_recv"
  /\ chan[t] = <<>>
  /\ waited[t] >= WATCHDOG
  /\ Return(t, Timeout)
  /\ waited' = [waited EXCEPT ![t] = 0]
  /\ UNCHANGED <<svc, readers, ghost, did, avail, content, chan, hist, subscribed,
                 sinceEvent, emitted>>
  /\ elapsed' = [elapsed EXCEPT ![t] = 0]
  /\ stream' = [stream EXCEPT ![t] = <<>>]
  /\ UNCHANGED <<cmdv, log>>

(* ---------------- the Tauri commands ---------------- *)
\* no command of task t is in flight
CmdIdle(t) == pc[t] = "idle" /\ (cmd[t] = "none" \/ env[t].returned)

\* a command in names of task t is resumed by the return of its call to inner
Resumed(t, names, inner) ==
  /\ cmd[t] \in names
  /\ ~env[t].returned
  /\ op[t] = inner
  /\ pc[t] = "idle"

\* a command is invoked and awaits its first service call
Invoke(t, c, name, at) ==
  /\ CmdIdle(t)
  /\ Call(t, name, at)
  /\ cmd' = [cmd EXCEPT ![t] = c]
  /\ env' = [env EXCEPT ![t] = NoEnv]
  /\ probes' = [probes EXCEPT ![t] = NoProbes]
  /\ UNCHANGED chk

\* the command returns envelope e; the locals of its frame are dropped
Respond(t, e, a) ==
  /\ env' = [env EXCEPT ![t] = e]
  /\ avail' = [avail EXCEPT ![t] = a]
  /\ op' = [op EXCEPT ![t] = "none"]
  /\ result' = [result EXCEPT ![t] = NoResult]
  /\ did' = [did EXCEPT ![t] = {}]
  /\ content' = [content EXCEPT ![t] = <<>>]
  /\ chan' = [chan EXCEPT ![t] = <<>>]
  /\ hist' = [hist EXCEPT ![t] = <<>>]
  /\ subscribed' = [subscribed EXCEPT ![t] = FALSE]
  /\ waited' = [waited EXCEPT ![t] = 0]
  /\ sinceEvent' = [sinceEvent EXCEPT ![t] = 0]
  /\ elapsed' = [elapsed EXCEPT ![t] = 0]
  /\ emitted' = [emitted EXCEPT ![t] = 0]
  /\ stream' = [stream EXCEPT ![t] = <<>>]
  /\ log' = [log EXCEPT ![t] = <<>>]
  /\ chk' = [chk EXCEPT ![t] = "none"]
  /\ UNCHANGED <<svc, locks, ghost, pc>>

\* copilot_check: probe and report, no service call
CopilotCheck(t, P) ==
  /\ CmdIdle(t)
  /\ cmd' = [cmd EXCEPT ![t] = "copilot_check"]
  /\ \E p \in P :
       /\ probes' = [probes EXCEPT ![t] = p]
       /\ Respond(t, EnvOk(ProbedStatus(ProbeAvailability(p))), ProbeAvailability(p))

\* copilot_init: probe; unavailable is reported at once, otherwise init() is awaited
CopilotInit(t, P) ==
  /\ CmdIdle(t)
  /\ \E p \in P :
       /\ probes' = [probes EXCEPT ![t] = p]
       /\ IF ~ProbeAvailability(p).available
          THEN /\ cmd' = [cmd EXCEPT ![t] = "copilot_init"]
               /\ Respond(t, EnvOk(ProbedStatus(ProbeAvailability(p))),
                          ProbeAvailability(p))
          ELSE /\ Call(t, "start", "start_lock")
               /\ cmd' = [cmd EXCEPT ![t] = "copilot_init"]
               /\ env' = [env EXCEPT ![t] = NoEnv]
               /\ UNCHANGED chk

\* copilot_init: init() has returned
CopilotInitDone(t) ==
  /\ Resumed(t, {"copilot_init"}, "start")
  /\ Respond(t, EnvOk(InitStatus(result[t])), NoAvail)
  /\ UNCHANGED <<cmd, probes>>

\* copilot_status: is_running() is awaited first
CopilotStatusCall(t) == Invoke(t, "copilot_status", "is_running", "isr_read")

\* copilot_status: is_running() has returned; probe and report
CopilotStatusDone(t, P) ==
  /\ Resumed(t, {"copilot_status"}, "is_running")
  /\ \E p \in P :
       /\ probes' = [probes EXCEPT ![t] = p]
       /\ Respond(t, EnvOk(RunStatus(result[t] = BoolResult(TRUE),
                                     ProbeAvailability(p))),
                  ProbeAvailability(p))
  /\ UNCHANGED cmd

\* copilot_ask, copilot_hint, copilot_explain, copilot_analyze_mistake:
\* is_running() is awaited first
ConversationalCall(t) ==
  \E c \in Conversational : Invoke(t, c, "is_running", "isr_read")

\* is_running() has returned: false is reported at once, true goes on to ask
ConversationalChecked(t) ==
  /\ Resumed(t, Conversational, "is_running")
  /\ IF result[t] = BoolResult(FALSE)
     THEN Respond(t, EnvErr(NotRunningMsg(cmd[t])), NoAvail)
     ELSE /\ Call(t, "ask", "ask_lock")
          /\ UNCHANGED <<env, chk>>
  /\ UNCHANGED <<cmd, probes>>

\* ask (directly or through get_hint, explain, analyze_mistake) has returned
ConversationalDone(t) ==
  /\ Resumed(t, Conversational, "ask")
  /\ Respond(t, ResultEnv(result[t]), NoAvail)
  /\ UNCHANGED <<cmd, probes>>

\* copilot_shutdown: shutdown() is awaited
CopilotShutdownCall(t) == Invoke(t, "copilot_shutdown", "stop", "stop_lock")

\* copilot_shutdown: shutdown() has returned
CopilotShutdownDone(t) ==
  /\ Resumed(t, {"copilot_shutdown"}, "stop")
  /\ Respond(t, ResultEnv(result[t]), NoAvail)
  /\ UNCHANGED <<cmd, probes>>

(* ---------------- specifications ---------------- *)
Start(t) == StartCall(t) \/ StartEnter(t) \/ StartProbe(t) \/ StartExt(t) \/ StartCommit(t)
Stop(t) == StopCall(t) \/ StopEnter(t) \/ StopWrite(t) \/ StopExt(t)
IsRunning(t) == IsRunningCall(t) \/ IsRunningRead(t) \/ IsRunningRelease(t)
Ask(t) == AskCall(t) \/ AskEnter(t) \/ AskCreate(t) \/ AskSend(t) \/ Tick(t)
            \/ AskRecv(t) \/ AskTimeout(t)
EmitConc(t) == \E e \in ConcEvents : Emit(t, e, MaxEmitConc)
EmitAll(t) == \E e \in AllEvents : Emit(t, e, MaxEmit)
EmitLive(t) == \E e \in LiveEvents : Emit(t, e, MaxEmitConc)

\* concurrent tasks calling start, stop, is_running and ask
Next ==
  \E t \in Tasks :
    \/ StartCall(t) \/ StartEnter(t) \/ StartProbe(t) \/ StartExt(t) \/ StartCommit(t)
    \/ StopCall(t) \/ StopEnter(t) \/ StopWrite(t) \/ StopExt(t)
    \/ IsRunningCall(t) \/ IsRunningRead(t) \/ IsRunningRelease(t)
    \/ AskCall(t) \/ AskEnter(t) \/ AskCreate(t) \/ AskSend(t)
    \/ EmitConc(t) \/ Tick(t) \/ AskRecv(t) \/ AskTimeout(t)

Spec == Init /\ [][Next]_vars

\* one caller that starts the service and asks, the session emitting any events
NextAsk ==
  \/ StartCall(1) \/ StartEnter(1) \/ StartProbe(1) \/ StartExt(1) \/ StartCommit(1)
  \/ AskCall(1) \/ AskEnter(1) \/ AskCreate(1) \/ AskSend(1)
  \/ EmitAll(1) \/ Tick(1) \/ AskRecv(1) \/ AskTimeout(1)

SpecAsk == Init /\ [][NextAsk]_vars

\* the steps of the service calls a command awaits
Inner(t) ==
  \/ StartEnter(t) \/ StartProbe(t) \/ StartExt(t) \/ StartCommit(t)
  \/ StopEnter(t) \/ StopWrite(t) \/ StopExt(t)
  \/ IsRunningRead(t) \/ IsRunningRelease(t)
  \/ AskEnter(t) \/ AskCreate(t) \/ AskSend(t)
  \/ EmitConc(t) \/ Tick(t) \/ AskRecv(t) \/ AskTimeout(t)

\* task 1 invokes any command while the other tasks initialize and shut down
NextCmd ==
  \/ CopilotCheck(1, ConcProbes) \/ CopilotInit(1, ConcProbes) \/ CopilotInitDone(1)
  \/ CopilotStatusCall(1) \/ CopilotStatusDone(1, ConcProbes)
  \/ ConversationalCall(1) \/ ConversationalChecked(1) \/ ConversationalDone(1)
  \/ CopilotShutdownCall(1) \/ CopilotShutdownDone(1)
  \/ Inner(1)
  \/ \E t \in Tasks \ {1} :
       \/ CopilotInit(t, ConcProbes) \/ CopilotInitDone(t)
       \/ CopilotShutdownCall(t) \/ CopilotShutdownDone(t)
       \/ Inner(t)

SpecCmd == Init /\ [][NextCmd]_vars

\* one caller invoking the commands that probe, over every probe outcome
NextProbe ==
  \/ CopilotCheck(1, AllProbes) \/ CopilotInit(1, AllProbes) \/ CopilotInitDone(1)
  \/ CopilotStatusCall(1) \/ CopilotStatusDone(1, AllProbes)
  \/ CopilotShutdownCall(1) \/ CopilotShutdownDone(1)
  \/ StartEnter(1) \/ StartProbe(1) \/ StartExt(1) \/ StartCommit(1)
  \/ StopEnter(1) \/ StopWrite(1) \/ StopExt(1)
  \/ IsRunningRead(1) \/ IsRunningRelease(1)

SpecProbe == Init /\ [][NextProbe]_vars

\* the steps of the call task t is in, the session's emissions excluded
Proceeds(t) ==
  \/ StartEnter(t) \/ StartProbe(t) \/ StartExt(t) \/ StartCommit(t)
  \/ StopEnter(t) \/ StopWrite(t) \/ StopExt(t)
  \/ IsRunningRead(t) \/ IsRunningRelease(t)
  \/ AskEnter(t) \/ AskCreate(t) \/ AskSend(t)
  \/ Tick(t) \/ AskRecv(t) \/ AskTimeout(t)

\* the steps of task t that wait for something outside the service and are
\* bounded by no timeout: the availability probes of a start, and the
\* returns of client.start(), client.stop(), create_session() and send()
External(t) ==
  \/ StartProbe(t) \/ StartExt(t) \/ StopExt(t)
  \/ AskCreate(t) \/ AskSend(t)

\* the steps of task t the runtime itself brings about: a lock is granted,
\* a ready task is polled, the timer of the current wait advances and fires
Scheduled(t) ==
  \/ StartEnter(t) \/ StartCommit(t)
  \/ StopEnter(t) \/ StopWrite(t)
  \/ IsRunningRead(t) \/ IsRunningRelease(t)
  \/ AskEnter(t)
  \/ Tick(t) \/ AskRecv(t) \/ AskTimeout(t)

\* task 1 starts the service and asks while the other tasks start and stop it
NextLive ==
  \/ StartCall(1) \/ StartEnter(1) \/ StartProbe(1) \/ StartExt(1) \/ StartCommit(1)
  \/ AskCall(1) \/ AskEnter(1) \/ AskCreate(1) \/ AskSend(1)
  \/ EmitLive(1) \/ Tick(1) \/ AskRecv(1) \/ AskTimeout(1)
  \/ \E t \in Tasks \ {1} :
       \/ StartCall(t) \/ StartEnter(t) \/ StartProbe(t) \/ StartExt(t) \/ StartCommit(t)
       \/ StopCall(t) \/ StopEnter(t) \/ StopWrite(t) \/ StopExt(t)

\* the runtime polls every task that is ready, time passes, and the locks
\* are granted in arrival order, so no waiter is passed over for ever.
\* Nothing makes an external call return or the session emit.
SpecLive == Init /\ [][NextLive]_vars /\ \A t \in Tasks : SF_vars(Scheduled(t))

(* ---------------- properties of the connection handle ---------------- *)
Holds(t) == t \in holders
Returned(t, name) == op[t] = name /\ pc[t] = "idle"
Returns(t, name) == op[t] = name /\ pc[t] # "idle" /\ pc'[t] = "idle"

\* C1 as stated: in every reachable state, intermediate states of start and
\* stop included, running is true iff the slot holds a connection.
C1_RunningIffConnection == running = (client # None)

\* C1 amended: running differs from "the slot holds a connection" only while
\* the task holding the connection lock is a start or a stop suspended between
\* its change of the slot and its write of the flag; in every other state the
\* two agree. is_running, which does not take the connection lock, can see
\* the difference; start, stop and ask, which do, cannot.
C1_RunningIffConnectionOutsideCommit ==
  \/ running = (client # None)
  \/ /\ \E t \in holders : pc[t] = "start_write"
     /\ client = Some /\ ~running
  \/ /\ \E t \in holders : pc[t] = "stop_write"
     /\ client = None /\ running

\* C1 witness: is_running read the flag while a start had filled the slot and
\* not yet set the flag.
C1_Witness ==
  \E t \in Tasks, u \in Tasks :
    /\ pc[t] = "start_write" /\ client = Some
    /\ pc[u] = "isr_release" /\ result[u] = BoolResult(FALSE)

\* C2: at most one connection exists: the connections whose external start
\* succeeded and whose underlying stop has not been invoked never exceed one.
C2_AtMostOneConnection == live <= 1

\* C2 witness: a start waits for the lock while a stop has taken the only
\* connection out of the slot and has not yet stopped it.
C2_Witness ==
  \E t \in Tasks, u \in Tasks :
    pc[t] = "stop_ext" /\ pc[u] = "start_lock" /\ live = 1 /\ client = None

\* C3: a start that finds the slot filled returns Ok without probing and
\* without an external start, and leaves slot and flag as they are; and no
\* second external start succeeds before a stop has taken the connection.
C3_StartIdempotent ==
  /\ [][\A t \in Tasks :
          (pc[t] = "start_lock" /\ client # None /\ pc'[t] # "start_lock")
            => /\ pc'[t] = "idle"
               /\ result'[t] = OkUnit
               /\ did'[t] = {}
               /\ client' = client /\ running' = running /\ live' = live]_vars
  /\ [](startsSinceStop <= 1)

\* C3 witness: one task's start performed the external start, the other's
\* start then returned Ok having done nothing.
C3_Witness ==
  \E t \in Tasks, u \in Tasks :
    /\ Returned(t, "start") /\ result[t] = OkUnit /\ "ext_start" \in did[t]
    /\ Returned(u, "start") /\ result[u] = OkUnit /\ did[u] = {}
    /\ client = Some /\ running

\* C4: a stop that finds the slot empty returns Ok, does not invoke the
\* underlying stop, and leaves the slot empty and the flag false.
C4_StopOnEmptyIsNoop ==
  [][\A t \in Tasks :
       (pc[t] = "stop_lock" /\ client = None /\ pc'[t] # "stop_lock")
         => /\ pc'[t] = "idle"
            /\ result'[t] = OkUnit
            /\ did'[t] = {}
            /\ client' = None /\ ~running' /\ live' = live]_vars

\* C4 witness: two stops in a row have both returned Ok on an empty slot
\* without invoking the underlying stop.
C4_Witness ==
  \E t \in Tasks, u \in Tasks :
    /\ t # u
    /\ Returned(t, "stop") /\ result[t] = OkUnit /\ did[t] = {}
    /\ Returned(u, "stop") /\ result[u] = OkUnit /\ did[u] = {}
    /\ client = None /\ ~running

\* C5: a start that returns an error found the slot empty and leaves it empty
\* and the flag false; the error is CliNotFound when the probe said not
\* installed, NotAuthenticated when installed and not authenticated, and
\* StartFailed otherwise; the slot is filled only by a start whose external
\* start has been performed, and the flag set only once the slot is filled.
C5_FailedStartChangesNothing ==
  [][/\ \A t \in Tasks :
          (Returns(t, "start") /\ result'[t] # OkUnit)
            => /\ client = None /\ ~running
               /\ client' = None /\ ~running'
               /\ result'[t] =
                    IF ~avail'[t].cli_installed THEN CliNotFound
                    ELSE IF ~avail'[t].cli_authenticated THEN NotAuthenticated
                    ELSE StartFailed(result'[t].val)
               /\ avail'[t] # NoAvail
     /\ (client = None /\ client' = Some)
          => \E t \in Tasks : pc[t] = "start_ext" /\ "ext_start" \in did'[t]
                              /\ avail[t].available
     /\ (~running /\ running') => client = Some]_vars

\* C5 witness: starts have failed for a missing CLI and for a failed external
\* start, and the service is still stopped.
C5_Witness ==
  \E t \in Tasks, u \in Tasks :
    /\ Returned(t, "start") /\ result[t] = StartFailed(<<"start">>)
    /\ Returned(u, "start") /\ result[u] = CliNotFound
    /\ avail[u].cli_authenticated
    /\ client = None /\ ~running

\* C6: while the underlying stop is in flight the slot is already empty and
\* the flag already false, and no is_running holds a flag value of true read
\* since; when the underlying stop returns, stop returns Ok or SendFailed and
\* slot and flag stay cleared.
C6_StopClearsBeforeStopping ==
  /\ [](\A t \in Tasks : pc[t] = "stop_ext"
          => /\ client = None /\ ~running
             /\ \A u \in Tasks : pc[u] = "isr_release" => result[u] = BoolResult(FALSE))
  /\ [][\A t \in Tasks :
          (pc[t] = "stop_ext" /\ pc'[t] # "stop_ext")
            => /\ pc'[t] = "idle"
               /\ result'[t] \in {OkUnit, SendFailed(<<"stop">>)}
               /\ "ext_stop" \in did'[t]
               /\ client' = None /\ ~running']_vars

\* C6 witness: a stop has failed with SendFailed, the slot is empty, and an
\* is_running call made afterwards read false.
C6_Witness ==
  \E t \in Tasks, u \in Tasks :
    /\ Returned(t, "stop") /\ result[t] = SendFailed(<<"stop">>)
    /\ pc[u] = "isr_release" /\ result[u] = BoolResult(FALSE)
    /\ client = None /\ ~running /\ live = 0

(* ---------------- properties of the session aggregator ---------------- *)
RECURSIVE ConcatDeltas(_)
\* the delta texts of a received sequence, concatenated in order
ConcatDeltas(h) ==
  IF h = <<>> THEN <<>>
  ELSE (IF Head(h).kind = "delta" THEN Head(h).text ELSE <<>>)
         \o ConcatDeltas(Tail(h))

\* deltas and ignored kinds only, then idle
DeltasThenIdle(h) ==
  /\ Len(h) >= 1
  /\ h[Len(h)].kind = "idle"
  /\ \A i \in 1..(Len(h) - 1) : h[i].kind \in {"delta", "other"}

\* C7: an ask that received only deltas and ignored kinds and then idle has
\* returned Ok with the concatenation of the delta texts in arrival order;
\* nothing is received after an idle signal, whatever the session emitted.
C7_DeltasConcatenated ==
  \A t \in Tasks :
    /\ (Returned(t, "ask") /\ DeltasThenIdle(hist[t]))
         => result[t] = OkAnswer(ConcatDeltas(hist[t]))
    /\ \A i \in 1..(Len(hist[t]) - 1) : hist[t][i].kind # "idle"

\* C7 witness: deltas "a", "b" and idle were received, a fourth event was
\* emitted behind the idle signal, and the answer is "ab".
C7_Witness ==
  /\ Returned(1, "ask")
  /\ hist[1] = <<Delta(<<"a">>), Delta(<<"b">>), Idle>>
  /\ emitted[1] = 4
  /\ result[1] = OkAnswer(<<"a", "b">>)

\* C8: receiving a full-message event sets the accumulator to the message
\* text when the accumulator is empty and leaves it unchanged otherwise, and
\* the loop goes on; delta "a", full "ab", idle yields "a", and full "ab",
\* idle yields "ab".
C8_FullOnlyWhenEmpty ==
  /\ [][\A t \in Tasks :
          (pc[t] = "ask_recv" /\ chan[t] # <<>> /\ Head(chan[t]).kind = "full"
             /\ hist'[t] # hist[t])
            => /\ content'[t] = IF content[t] = <<>> THEN Head(chan[t]).text
                                 ELSE content[t]
               /\ pc'[t] = "ask_recv"]_vars
  /\ [](\A t \in Tasks : Returned(t, "ask") =>
          /\ hist[t] = <<Delta(<<"a">>), Full(<<"a", "b">>), Idle>>
               => result[t] = OkAnswer(<<"a">>)
          /\ hist[t] = <<Full(<<"a", "b">>), Idle>>
               => result[t] = OkAnswer(<<"a", "b">>))

\* C8 witness: delta "a", full "ab" and idle were received and the answer
\* is "a".
C8_Witness ==
  /\ Returned(1, "ask")
  /\ hist[1] = <<Delta(<<"a">>), Full(<<"a", "b">>), Idle>>
  /\ result[1] = OkAnswer(<<"a">>)

\* C9: an error event is the last thing its ask received, and that ask has
\* returned SendFailed with the event's message.
C9_ErrorEventAborts ==
  \A t \in Tasks : \A i \in 1..Len(hist[t]) :
    hist[t][i].kind = "error"
      => /\ i = Len(hist[t])
         /\ Returned(t, "ask")
         /\ result[t] = SendFailed(hist[t][i].text)

\* C9 witness: a delta "a" had been accumulated when the error event came,
\* two emitted events were left unreceived, and ask returned SendFailed.
C9_Witness ==
  /\ Returned(1, "ask")
  /\ hist[1] = <<Delta(<<"a">>), SessErr(<<"boom">>)>>
  /\ emitted[1] = 4
  /\ result[1] = SendFailed(<<"boom">>)

\* C10 as stated: ask returns Timeout exactly when a wait has lasted a full
\* watchdog window since the last received event (or the start of the loop)
\* with no event and no closure: only from such a wait, and a wait that has
\* lasted a full window ends in Timeout and in nothing else; the running
\* watchdog measures the time since the last received event. Refuted: an
\* event that arrives after the window has passed, before the ask is polled
\* again, is received.
C10_WatchdogPerWait ==
  /\ [](\A t \in Tasks : pc[t] = "ask_recv" => waited[t] = sinceEvent[t])
  /\ [][\A t \in Tasks :
          /\ (Returns(t, "ask") /\ result'[t] = Timeout)
               => sinceEvent[t] >= WATCHDOG /\ chan[t] = <<>>
          /\ (pc[t] = "ask_recv" /\ sinceEvent[t] >= WATCHDOG
                /\ (pc'[t] # pc[t] \/ hist'[t] # hist[t]))
               => result'[t] = Timeout]_vars

\* C10 amended: ask returns Timeout only from a wait that has lasted a full
\* window since the last received event (or the start of the loop) with the
\* channel empty; a wait that has lasted a full window ends in Timeout unless
\* an event or a closure has arrived in the meantime, which is then received
\* like any other; every received non-terminal event starts the window
\* afresh, and the running watchdog measures the time since the last
\* received event, not since the exchange began.
C10_WatchdogPerWaitUnlessLate ==
  /\ [](\A t \in Tasks : pc[t] = "ask_recv" => waited[t] = sinceEvent[t])
  /\ [][\A t \in Tasks :
          /\ (Returns(t, "ask") /\ result'[t] = Timeout)
               => sinceEvent[t] >= WATCHDOG /\ chan[t] = <<>>
          /\ (pc[t] = "ask_recv" /\ sinceEvent[t] >= WATCHDOG
                /\ (pc'[t] # pc[t] \/ hist'[t] # hist[t]))
               => IF chan[t] = <<>> THEN result'[t] = Timeout
                  ELSE /\ hist'[t] = Append(hist[t], Head(chan[t]))
                       /\ result'[t] # Timeout
                       /\ pc'[t] = "ask_recv" => waited'[t] = 0
          /\ (pc[t] = "ask_recv" /\ sinceEvent[t] < WATCHDOG)
               => result'[t] # Timeout]_vars

\* C10 witness: an ask that has received two events and has waited two
\* windows in total without timing out sits in a wait that has lasted a
\* full window with nothing in the channel; polled now, it returns Timeout.
C10_Witness ==
  /\ pc[1] = "ask_recv"
  /\ Len(hist[1]) = 2
  /\ chan[1] = <<>>
  /\ elapsed[1] = 4 * TickSecs
  /\ sinceEvent[1] = 2 * TickSecs
  /\ ENABLED AskTimeout(1)

\* C10, the late event: a single event was received by a wait that had
\* already lasted a full window, and the window started afresh.
C10_LateEventReceived ==
  /\ pc[1] = "ask_recv"
  /\ Len(hist[1]) = 1
  /\ elapsed[1] >= WATCHDOG
  /\ waited[1] = 0

(* ---------------- properties of ask beyond the fold ---------------- *)
\* a step taken by task t inside its ask
AskStep(t) ==
  /\ op[t] = "ask"
  /\ pc[t] # "idle"
  /\ (pc'[t] # pc[t] \/ hist'[t] # hist[t] \/ waited'[t] # waited[t])

\* C11: no step of an ask, whatever its outcome, changes the connection slot
\* or the running flag; when the ask returns it no longer holds the connection
\* lock, and after a Timeout the connection is still there, the flag still
\* says running and the lock is free, so a later ask can proceed.
C11_AskLeavesServiceUntouched ==
  [][\A t \in Tasks :
       AskStep(t) =>
         /\ client' = client
         /\ running' = running
         /\ live' = live
         /\ startsSinceStop' = startsSinceStop
         /\ (pc'[t] = "idle" => t \notin holders')
         /\ (pc'[t] = "idle" /\ result'[t] = Timeout =>
               client' = Some /\ running' /\ live' = 1 /\ holders' = {})]_vars

\* one ask has timed out and a later ask of another task has created its session
C11_Witness ==
  \E t \in Tasks, u \in Tasks :
    /\ Returned(t, "ask") /\ result[t] = Timeout
    /\ op[u] = "ask" /\ pc[u] = "ask_send" /\ "session" \in did[u]
    /\ client = Some /\ running

\* C12: when the receive fails (channel closed or receive error) before any
\* idle event, the ask returns at that very step, successfully, with exactly
\* the content accumulated so far (possibly empty), without a further wait.
C12_ChannelCloseReturnsAccumulated ==
  [][(/\ pc[1] = "ask_recv"
      /\ chan[1] # <<>>
      /\ Head(chan[1]) = RecvErr
      /\ hist'[1] # hist[1])
     => /\ pc'[1] = "idle"
        /\ result'[1] = OkAnswer(content[1])
        /\ content'[1] = content[1]
        /\ (\A i \in 1..Len(hist[1]) : hist[1][i].kind # "full")
             => content[1] = ConcatDeltas(hist[1])]_vars

\* the channel closed after one delta, with no time waited since that delta
C12_Witness ==
  /\ Returned(1, "ask")
  /\ hist[1] = <<Delta(<<"a">>), RecvErr>>
  /\ result[1] = OkAnswer(<<"a">>)
  /\ sinceEvent[1] = 0

(* ---------------- serialization on the connection lock ---------------- *)
\* task t is inside the locked part of start, stop or ask
InCritical(t) ==
  pc[t] \in {"start_probe", "start_ext", "start_write",
             "stop_write", "stop_ext",
             "ask_create", "ask_send", "ask_recv"}

\* task t has a session and an exchange in progress
Exchanging(t) == pc[t] \in {"ask_send", "ask_recv"}

\* C16: start, stop and ask exclude one another on the connection lock: at
\* most one task is inside any of them, and it holds the lock; so no stop
\* takes or stops the connection while an ask is using a session, at most one
\* prompt/response exchange is in progress, and two concurrent starts are
\* never both performing the external start.
C16_LockSerializes ==
  /\ Cardinality(holders) <= 1
  /\ \A t \in Tasks : InCritical(t) => Holds(t)
  /\ \A t \in Tasks, u \in Tasks :
       t # u =>
         /\ ~(InCritical(t) /\ InCritical(u))
         /\ ~(Exchanging(t) /\ Exchanging(u))
         /\ ~(Exchanging(t) /\ pc[u] \in {"stop_write", "stop_ext"})
         /\ ~(pc[t] = "start_ext" /\ pc[u] = "start_ext")

\* an exchange is in progress, an event already emitted, while a stop issued
\* by another task waits for the lock
C16_Witness ==
  \E t \in Tasks, u \in Tasks :
    /\ pc[t] = "ask_recv" /\ chan[t] # <<>>
    /\ pc[u] = "stop_lock"
    /\ client = Some

(* ---------------- order of the steps of one ask ---------------- *)
\* C17: within one ask the session is created, then subscribed to, then the
\* prompt is sent, then events are received. While the prompt is being sent
\* or events are awaited the subscription exists, and the events folded so
\* far followed by the events still queued are exactly the events the session
\* has emitted, in the order of emission: none is lost and none reordered,
\* even one emitted before the send has returned.
C17_SubscribedBeforeSend ==
  \A t \in Tasks :
    /\ Exchanging(t) =>
         /\ subscribed[t]
         /\ log[t] = <<"create_session", "subscribe", "send">>
         /\ hist[t] \o chan[t] = stream[t]
    /\ pc[t] = "ask_send" => hist[t] = <<>>
    /\ hist[t] # <<>> => log[t] = <<"create_session", "subscribe", "send">>

\* two events were emitted while the send had not returned: both are queued
\* for the fold, in the order of emission
C17_Witness ==
  /\ pc[1] = "ask_send"
  /\ subscribed[1]
  /\ stream[1] = <<Delta(<<"a">>), Idle>>
  /\ chan[1] = stream[1]
  /\ hist[1] = <<>>

(* ---------------- full-message text and delta text ---------------- *)
\* C18 as stated: the content an ask returns is the concatenation of the
\* delta texts it received or, when it received no delta, the text of a
\* full-message event it received; never full-message text together with
\* delta text. Refuted: a full message received while the accumulator is empty
\* sets it, and deltas received afterwards are appended to that text.
C18_FullOnlyWithoutDeltas ==
  \A t \in Tasks :
    (Returned(t, "ask") /\ result[t].tag = "Ok") =>
      LET h == hist[t]
          c == result[t].val
      IN \/ c = ConcatDeltas(h)
         \/ /\ \A i \in 1..Len(h) : h[i].kind # "delta"
            /\ \E i \in 1..Len(h) : h[i].kind = "full" /\ c = h[i].text

(* ---------------- one session and one prompt per ask ---------------- *)
\* the session operations of an ask that got as far as sending its prompt
FullExchange == <<"create_session", "subscribe", "send">>

\* C19: an ask that found the slot empty performs no session operation; an
\* ask that found a connection issues create_session exactly once, and, if
\* that succeeded, subscribes once and sends once, on the session it created
\* itself; a failed creation, a failed send, a session error or a timeout is
\* returned with nothing issued a second time.
C19_OneSessionNoRetry ==
  \A t \in Tasks :
    /\ pc[t] \in {"ask_lock", "ask_create"} => log[t] = <<>>
    /\ Exchanging(t) => log[t] = FullExchange
    /\ Returned(t, "ask") =>
         /\ result[t] = NotInitialized => log[t] = <<>>
         /\ result[t].tag = "SessionFailed" => log[t] = <<"create_session">>
         /\ result[t].tag \in {"Ok", "SendFailed", "Timeout"} => log[t] = FullExchange
         /\ result[t].tag \in {"NotInitialized", "SessionFailed", "Ok",
                                "SendFailed", "Timeout"}

\* the send failed and the ask returned that failure after a single send
C19_Witness ==
  /\ Returned(1, "ask")
  /\ result[1] = SendFailed(<<"send">>)
  /\ log[1] = FullExchange
  /\ hist[1] = <<>>

(* ---------------- properties of the commands ---------------- *)
\* the step in which a conversational command of task t returns because
\* is_running() was false
FailsFast(t) ==
  /\ Resumed(t, Conversational, "is_running")
  /\ result[t] = BoolResult(FALSE)
  /\ env'[t].returned

\* C13 as stated: a conversational command that saw is_running() false
\* returns at once an error envelope whose message is one fixed text, the
\* same for ask, hint, explain and analyze-mistake (so the text copilot_ask
\* uses), having neither taken the connection lock, created a session nor
\* sent a prompt. Refuted: copilot_ask uses a text of its own.
C13_OneFixedNotRunningMessage ==
  [][\A t \in Tasks :
       FailsFast(t) =>
         /\ env'[t] = EnvErr(NotRunningMsg("copilot_ask"))
         /\ did[t] = {} /\ log[t] = <<>>
         /\ t \notin holders
         /\ pc'[t] = "idle"
         /\ UNCHANGED <<svc, locks, ghost>>]_vars

\* the commands that report availability
Reporting == {"copilot_check", "copilot_init", "copilot_status"}

\* envelope e has data and no error, and says success
IsSuccessEnv(e) == e.success /\ Len(e.data) = 1 /\ e.error = <<>>

\* envelope e has an error and no data, and says failure
IsErrorEnv(e) == ~e.success /\ e.data = <<>> /\ Len(e.error) = 1

\* C14: check, init and status return a success envelope whatever the probes
\* and the start yield, with available = false and a message when the
\* assistant is unavailable; a conversational command returns an error
\* envelope whenever its ask returned an error of the taxonomy (and when it
\* saw is_running() false); every envelope returned has exactly one of data
\* and error.
C14_EnvelopeShapes ==
  /\ [](\A t \in Tasks :
          env[t].returned =>
            /\ IsSuccessEnv(env[t]) \/ IsErrorEnv(env[t])
            /\ cmd[t] \in Reporting =>
                 /\ IsSuccessEnv(env[t])
                 /\ env[t].data[1].message.text # ""
                 /\ cmd[t] = "copilot_check" =>
                      env[t].data[1].available
                        = (IsCopilotCliInstalled(probes[t]) /\ IsGhAuthenticated(probes[t]))
                 /\ ~(IsCopilotCliInstalled(probes[t]) /\ IsGhAuthenticated(probes[t]))
                      => ~env[t].data[1].available)
  /\ [][\A t \in Tasks :
          /\ (Resumed(t, {"copilot_init"}, "start") /\ env'[t].returned) =>
                /\ IsSuccessEnv(env'[t])
                /\ env'[t].data[1].available = (result[t].tag = "Ok")
                /\ env'[t].data[1].running = (result[t].tag = "Ok")
          /\ (Resumed(t, Conversational, "ask") /\ env'[t].returned) =>
                IF result[t].tag = "Ok"
                THEN env'[t] = EnvOk(result[t].val)
                ELSE /\ result[t].tag \in {"NotInitialized", "SessionFailed",
                                            "SendFailed", "Timeout"}
                     /\ IsErrorEnv(env'[t])
                     /\ env'[t].error[1] = Display(result[t])
          /\ FailsFast(t) => IsErrorEnv(env'[t])]_vars

\* copilot_explain has returned the error envelope of a timed-out ask while
\* the envelope of another task's copilot_init, whose start failed, reports
\* success with available = false
C14_Witness ==
  /\ cmd[1] = "copilot_explain"
  /\ env[1] = EnvErr(Msg("Session timeout", <<>>))
  /\ \E u \in Tasks :
       /\ cmd[u] = "copilot_init"
       /\ env[u].returned /\ env[u].success
       /\ ~env[u].data[1].available
       /\ env[u].data[1].message.text = "Failed to start: "

(* ---------------- the availability verdict ---------------- *)
\* C15: whatever the three external queries yield, check_availability
\* reports installed when one of the version queries ran and succeeded,
\* authenticated when the status query ran and showed both markers,
\* available exactly when installed and authenticated, and the message by
\* first match: ready; else, if installed, authenticate; else install,
\* whatever the authentication. A query that cannot be spawned counts as
\* false, and the command still returns a success envelope.
C15_AvailabilityVerdict ==
  \A t \in Tasks :
    (env[t].returned /\ probes[t] # NoProbes /\ avail[t] # NoAvail) =>
      LET p == probes[t]
          inst == \E q \in {p.copilot, p.gh_copilot} : q = "exit_success"
          auth == p.auth.spawned /\ p.auth.logged_in /\ p.auth.active
      IN /\ avail[t].cli_installed = inst
         /\ avail[t].cli_authenticated = auth
         /\ avail[t].available = (inst /\ auth)
         /\ (inst /\ auth) => avail[t].message = ReadyMsg
         /\ (inst /\ ~auth) => avail[t].message = AuthMsg
         /\ ~inst => avail[t].message = InstallMsg
         /\ (p.copilot = "spawn_failed" /\ p.gh_copilot = "spawn_failed")
              => ~avail[t].cli_installed
         /\ ~p.auth.spawned => ~avail[t].cli_authenticated
         /\ IsSuccessEnv(env[t])
         /\ cmd[t] = "copilot_check" => env[t].data[1] = ProbedStatus(avail[t])

\* neither version query could be spawned while the status query showed an
\* authenticated account: copilot_check reports the install message
C15_Witness ==
  /\ cmd[1] = "copilot_check"
  /\ probes[1] = Raw("spawn_failed", "spawn_failed",
                     [spawned |-> TRUE, logged_in |-> TRUE, active |-> TRUE])
  /\ env[1].returned /\ env[1].success
  /\ ~env[1].data[1].available
  /\ env[1].data[1].message = Msg(InstallMsg, <<>>)

(* ---------------- ask without a connection ---------------- *)
\* the step in which the ask of task t acquires the connection lock
AskAcquires(t) == op[t] = "ask" /\ pc[t] = "ask_lock" /\ pc'[t] # "ask_lock"

\* the step in which is_running() of task t reads the flag
ReadsFlag(t) == pc[t] = "isr_read" /\ pc'[t] = "isr_release"

\* C20 as stated: ask returns NotInitialized exactly when the slot is empty
\* as it acquires the lock, having created no session and sent nothing; and a
\* conversational command, whose is_running() was true, gets it only when a
\* stop emptied the slot after that check. Refuted: the slot may already have
\* been emptied when the check read true, by a stop that has not yet written
\* the flag.
C20_EmptiedAfterCheck ==
  [][\A t \in Tasks :
       AskAcquires(t) =>
         /\ (result'[t] = NotInitialized) = (client = None)
         /\ result'[t] = NotInitialized =>
              pc'[t] = "idle" /\ did'[t] = {} /\ log'[t] = <<>>
         /\ (cmd[t] \in Conversational /\ result'[t] = NotInitialized)
              => chk[t] = "taken"]_vars

\* C20 amended: ask returns NotInitialized exactly when the slot is empty as
\* it acquires the lock, having created no session and sent nothing; a
\* conversational command whose is_running() was true gets it only when a
\* stop overlapping the command emptied the slot, either after the check or
\* before it without yet having written the flag; a check that reads true on
\* an empty slot always has such a stop in progress.
C20_EmptiedByConcurrentStop ==
  [][\A t \in Tasks :
       /\ AskAcquires(t) =>
            /\ (result'[t] = NotInitialized) = (client = None)
            /\ result'[t] = NotInitialized =>
                 pc'[t] = "idle" /\ did'[t] = {} /\ log'[t] = <<>>
            /\ (cmd[t] \in Conversational /\ result'[t] = NotInitialized)
                 => chk[t] \in {"taken", "empty"}
       /\ (ReadsFlag(t) /\ running /\ client = None) =>
            \E u \in Tasks \ {t} : op[u] = "stop" /\ pc[u] = "stop_write"
       /\ (ReadsFlag(t) /\ cmd[t] \in Conversational) =>
            chk'[t] = IF client = None THEN "empty" ELSE "filled"]_vars

\* a conversational command saw is_running() true on a filled slot, a stop
\* then took the connection, and the command's ask returned NotInitialized
C20_Witness ==
  \E t \in Tasks :
    /\ cmd[t] \in Conversational /\ ~env[t].returned
    /\ op[t] = "ask" /\ pc[t] = "idle"
    /\ result[t] = NotInitialized
    /\ chk[t] = "taken"
    /\ did[t] = {} /\ log[t] = <<>>

(* ---------------- the flag outside start and stop ---------------- *)
\* no start or stop call holds the connection lock
NoLifecycleHolder == \A t \in holders : op[t] \notin {"start", "stop"}

\* C21: whenever no start or stop holds the connection lock (nothing holds
\* it, or an ask does), running equals "the slot holds a connection"; so a
\* start or stop that has returned, with success or with an error, has left
\* running true exactly when the slot is filled.
C21_FlagMatchesSlotWhenQuiescent ==
  /\ NoLifecycleHolder => (running = (client # None))
  /\ \A t \in Tasks :
       (Returned(t, "start") \/ Returned(t, "stop")) /\ holders = {}
         => (running = (client = Some))

\* a stop whose external stop failed and a start whose external start failed
\* have both returned, nothing holds the lock: the slot is empty and running
\* is false
C21_Witness ==
  \E t \in Tasks, u \in Tasks :
    /\ Returned(t, "stop") /\ result[t] = SendFailed(<<"stop">>)
    /\ Returned(u, "start") /\ result[u] = StartFailed(<<"start">>)
    /\ holders = {}
    /\ ~running /\ client = None

(* ---------------- lock order and absence of deadlock ---------------- *)
\* task t waits for the connection lock
WaitsForMutex(t) == pc[t] \in {"start_lock", "stop_lock", "ask_lock"}

\* task t waits for the write lock of the running flag
WaitsForWrite(t) == pc[t] \in {"start_write", "stop_write"}

\* C22: start and stop take the connection lock first and ask for the write
\* lock of the flag while holding it; ask holds only the connection lock;
\* is_running holds only a read guard and waits for nothing while holding it;
\* no task waits for the connection lock while holding a lock. So there is no
\* deadlock: whenever a call is in progress some call in progress can take a
\* step, and a task waiting for a free lock can take it.
C22_NoDeadlock ==
  /\ \A t \in Tasks :
       /\ WaitsForMutex(t) => (t \notin holders /\ t \notin readers)
       /\ WaitsForWrite(t) => (Holds(t) /\ t \notin readers)
       /\ op[t] = "ask" => t \notin readers
       /\ t \in readers => (pc[t] = "isr_release" /\ t \notin holders)
       /\ (op[t] = "is_running" /\ pc[t] # "idle") => t \notin holders
       /\ (WaitsForMutex(t) /\ holders = {}) => ENABLED Proceeds(t)
       /\ (WaitsForWrite(t) /\ readers = {}) => ENABLED Proceeds(t)
       /\ t \in readers => ENABLED Proceeds(t)
       /\ (Holds(t) /\ ~WaitsForWrite(t)) => ENABLED Proceeds(t)
  /\ (\E t \in Tasks : pc[t] # "idle") => \E u \in Tasks : ENABLED Proceeds(u)

\* a start holds the connection lock and waits for the write lock behind an
\* is_running that holds its read guard: the start cannot step, the
\* is_running can
C22_Witness ==
  \E t \in Tasks, u \in Tasks :
    /\ pc[t] = "start_write" /\ Holds(t)
    /\ pc[u] = "isr_release" /\ u \in readers
    /\ ~ENABLED Proceeds(t)
    /\ ENABLED Proceeds(u)

(* ---------------- termination of ask ---------------- *)
\* every external call that can return does return
ExternalCallsReturn == \A t \in Tasks : SF_vars(External(t))

\* task u waits for the connection lock while an ask holds it in an exchange
WaitsBehindAsk(u) ==
  /\ pc[u] \in {"start_lock", "stop_lock"}
  /\ \E t \in Tasks : Exchanging(t) /\ Holds(t)

\* the steps of ask: the receive loop is left only on an idle, error or
\* receive-error result or after a full window without event; a non-terminal
\* event keeps the ask in the loop with the lock held and the window started
\* afresh; every return of ask releases the lock
AskExits ==
  [][\A t \in Tasks :
       /\ (pc[t] = "ask_recv" /\ pc'[t] = "idle") =>
            \/ chan[t] # <<>> /\ Terminal(Head(chan[t]))
            \/ chan[t] = <<>> /\ waited[t] >= WATCHDOG
       /\ (pc[t] = "ask_recv" /\ hist'[t] # hist[t] /\ ~Terminal(Head(chan[t]))) =>
            /\ pc'[t] = "ask_recv"
            /\ t \in holders'
            /\ waited'[t] = 0
       /\ (op[t] = "ask" /\ pc[t] # "idle" /\ pc'[t] = "idle") =>
            /\ t \notin holders'
            /\ result'[t].tag \in {"Ok", "SessionFailed", "SendFailed",
                                    "Timeout", "NotInitialized"}]_vars

\* C23 as stated, task 1 being the task that asks: every ask in progress
\* returns and no longer holds the connection lock, whatever the session does
\* (a terminal event, a closed channel, or silence for one watchdog window),
\* and a start or stop waiting for the lock behind an exchange gets on; the
\* lock is released on every exit, and events that keep arriving inside the
\* window keep the ask running. Refuted: create_session() and send() are
\* awaited without a timeout, and so are the calls of a start or stop that
\* holds the lock.
C23_AskReturnsAndReleases ==
  /\ (op[1] = "ask" /\ pc[1] # "idle") ~> (pc[1] = "idle" /\ 1 \notin holders)
  /\ \A u \in Tasks \ {1} :
       WaitsBehindAsk(u) ~> (pc[u] \notin {"start_lock", "stop_lock"})
  /\ AskExits

\* C23 amended, task 1 being the task that asks: an ask that has reached its
\* receive loop returns and no longer holds the connection lock, whatever
\* the session does (a terminal event, a closed channel, or silence for one
\* watchdog window); provided the external calls return (create_session and
\* send of the ask, the probes and client.start / client.stop of a start or
\* stop that holds the lock), every ask in progress returns and releases the
\* lock, and a start or stop waiting for the lock behind an exchange gets
\* on. The lock is released on every exit, and events that keep arriving
\* inside the window keep the ask running.
C23_AskReturnsOnceReceiving ==
  /\ (pc[1] = "ask_recv") ~> (pc[1] = "idle" /\ 1 \notin holders)
  /\ ExternalCallsReturn =>
       /\ (op[1] = "ask" /\ pc[1] # "idle") ~> (pc[1] = "idle" /\ 1 \notin holders)
       /\ \A u \in Tasks \ {1} :
            WaitsBehindAsk(u) ~> (pc[u] \notin {"start_lock", "stop_lock"})
  /\ AskExits

\* an ask has received an event and then waited a full window in silence,
\* holding the lock, while a stop waits for the lock
C23_Witness ==
  /\ pc[1] = "ask_recv" /\ Holds(1)
  /\ hist[1] # <<>> /\ chan[1] = <<>>
  /\ waited[1] >= WATCHDOG
  /\ \E u \in Tasks : pc[u] = "stop_lock"

\* C23, the other cases: a start waits for the lock behind an ask whose
\* channel has been closed; an ask waits for send() to return, holding the
\* lock, with a stop waiting behind it
C23_StartWaitsBehindClosed ==
  /\ pc[1] = "ask_recv" /\ Holds(1)
  /\ chan[1] # <<>> /\ Head(chan[1]) = RecvErr
  /\ \E u \in Tasks : pc[u] = "start_lock"

C23_SendPending ==
  /\ pc[1] = "ask_send" /\ Holds(1)
  /\ \E u \in Tasks : pc[u] = "stop_lock"

====
